---- MODULE Spec2Model ----
(***************************************************************************)
(* Drone ("Zip") flight scheduler: the binary-heap PriorityQueue           *)
(* (src/PriorityQueue.ts) and the ZipScheduler built on it                 *)
(* (src/FlightScheduler.ts).                                               *)
(*                                                                         *)
(* Array indices are the source's 0-based indices; TLA+ sequences are      *)
(* 1-based, so the element at source index i is h[i + 1].                  *)
(***************************************************************************)
EXTENDS Integers, Sequences, FiniteSets

VARIABLES
    heap,                   \* PriorityQueue.heap: sequence of [order |-> Order]
    activeFlights,          \* ZipScheduler.activeFlights: sequence of [returnTime, flight]
    completeOrderCount,     \* ZipScheduler.completeOrderCount
    numZips,                \* constructor argument
    maxPackagesPerZip,      \* constructor argument
    zipSpeedMps,            \* constructor argument
    zipMaxCumulativeRangeM, \* constructor argument
    nextId,                 \* id the next created order receives (ids are unique)
    rejectedIds,            \* history: ids of the orders queueOrder refused
    last,                   \* history: the last call, its arguments and what it returned
    runnerOrders,           \* Runner.orders: the orders not yet passed to queueOrder
    secondsSinceMidnight    \* Runner.run: the loop variable

vars == <<heap, activeFlights, completeOrderCount, numZips, maxPackagesPerZip,
          zipSpeedMps, zipMaxCumulativeRangeM, nextId, rejectedIds, last,
          runnerOrders, secondsSinceMidnight>>

\* the state of the Runner, which the scheduler and the queue never touch
runner == <<runnerOrders, secondsSinceMidnight>>

config == <<numZips, maxPackagesPerZip, zipSpeedMps, zipMaxCumulativeRangeM>>

(***************************************************************************)
(* Bounds of the model.                                                    *)
(***************************************************************************)
MaxEnqueues == 6       \* orders created in a run of the queue alone
MaxArrival == 1        \* order.time ranges over 0..MaxArrival
MaxTimed == 3          \* the first MaxTimed orders of a run carry any arrival time;
                       \* the later ones arrive at the latest time, MaxArrival
MaxOrders == 3         \* orders created in a run of the scheduler
MaxTime == 1           \* currentTime ranges over 0..MaxTime
MaxZips == 5           \* numZips ranges over 1..MaxZips
MaxPackages == 2       \* maxPackagesPerZip ranges over 1..MaxPackages
MaxMinutes == 2        \* minutes in the day the Runner simulates
MaxRunnerOrders == 2   \* orders in the file the Runner plays back

(***************************************************************************)
(* Orders and hospitals.                                                   *)
(***************************************************************************)
Nest == [northM |-> 0, eastM |-> 0]

\* Every pairwise distance between these points and the Nest is a whole
\* number (3-4-5 triangles), so Math.sqrt is exact on them.
Hospitals ==
    { [name |-> "A", northM |-> 3, eastM |-> 4],     \* 5 from the Nest
      [name |-> "B", northM |-> 6, eastM |-> 0],     \* 6 from the Nest
      [name |-> "C", northM |-> 0, eastM |-> 8],     \* 8 from the Nest
      [name |-> "D", northM |-> 6, eastM |-> 8] }    \* 10 from the Nest

\* the hospitals the orders given to the scheduler go to
Destinations == {h \in Hospitals : h.name \in {"A", "C", "D"}}

HospitalNamed(n) == CHOOSE h \in Hospitals : h.name = n

PRIORITY_ORDER == <<"Emergency", "Resupply">>

Priorities == {"Emergency", "Resupply"}

\* the arrival times the order with this id may carry
ArrivalTimes(id) == IF id <= MaxTimed THEN 0..MaxArrival ELSE {MaxArrival}

\* The value of "no order" (null); no real order has id 0.
Null == [id |-> 0, hospital |-> Nest, priority |-> "none", time |-> 0]

\* A local binding that is evaluated once: Body applied to the value.
Let(value, Body(_)) == CHOOSE out \in {Body(v) : v \in {value}} : TRUE

(***************************************************************************)
(* PriorityQueue                                                           *)
(***************************************************************************)
\* priorityOrder.indexOf(p), 0-based, -1 when absent
IndexOfPriority(p) ==
    IF \E i \in 1..Len(PRIORITY_ORDER) : PRIORITY_ORDER[i] = p
    THEN (CHOOSE i \in 1..Len(PRIORITY_ORDER) :
             /\ PRIORITY_ORDER[i] = p
             /\ \A j \in 1..(i - 1) : PRIORITY_ORDER[j] # p) - 1
    ELSE -1

\* A mutation of compare: the arrival time is ignored.
compare_priorityOnly(a, b) ==
    IndexOfPriority(a.priority) - IndexOfPriority(b.priority)

compare(a, b) ==
    LET priorityDiff == IndexOfPriority(a.priority) - IndexOfPriority(b.priority)
    IN  IF priorityDiff # 0 THEN priorityDiff ELSE a.time - b.time

swap(h, i, j) == [h EXCEPT ![i + 1] = h[j + 1], ![j + 1] = h[i + 1]]

RECURSIVE bubbleUp(_, _)
bubbleUp(h, index) ==
    IF index > 0
    THEN LET parentIndex == (index - 1) \div 2
         IN  IF compare(h[index + 1].order, h[parentIndex + 1].order) < 0
             THEN Let(swap(h, index, parentIndex),
                      LAMBDA swapped : bubbleUp(swapped, parentIndex))
             ELSE h
    ELSE h

RECURSIVE bubbleDown(_, _)
bubbleDown(h, index) ==
    LET length == Len(h)
        left == 2 * index + 1
        right == 2 * index + 2
        afterLeft ==
            IF left < length /\ compare(h[left + 1].order, h[index + 1].order) < 0
            THEN left ELSE index
        smallest ==
            IF right < length /\ compare(h[right + 1].order, h[afterLeft + 1].order) < 0
            THEN right ELSE afterLeft
    IN  Let(smallest, LAMBDA child :
          IF child # index
          THEN Let(swap(h, index, child), LAMBDA swapped : bubbleDown(swapped, child))
          ELSE h)

\* this.heap after this.heap.pop()
popped(h) == SubSeq(h, 1, Len(h) - 1)

enqueue(h, order) == bubbleUp(Append(h, [order |-> order]), Len(h))

dequeue(h) ==
    IF Len(h) = 0 THEN [heap |-> h, result |-> Null]
    ELSE IF Len(h) = 1 THEN [heap |-> popped(h), result |-> h[1].order]
    ELSE [heap |-> bubbleDown([popped(h) EXCEPT ![1] = h[Len(h)]], 0),
          result |-> h[1].order]

\* The id that is not a value (NaN): === finds it equal to nothing, itself
\* included.  No order of Spec or SpecPQ carries it.
NaN == -1

\* a === b on ids
strictEquals(a, b) == a # NaN /\ b # NaN /\ a = b

\* A mutation of findIndex: the search starts after the root.
findIndex_afterRoot(h, id) ==
    IF \E i \in 2..Len(h) : strictEquals(h[i].order.id, id)
    THEN (CHOOSE i \in 2..Len(h) :
             /\ strictEquals(h[i].order.id, id)
             /\ \A j \in 2..(i - 1) : ~strictEquals(h[j].order.id, id)) - 1
    ELSE -1

\* this.heap.findIndex(element => element.order.id === id)
findIndex(h, id) ==
    IF \E i \in 1..Len(h) : strictEquals(h[i].order.id, id)
    THEN (CHOOSE i \in 1..Len(h) :
             /\ strictEquals(h[i].order.id, id)
             /\ \A j \in 1..(i - 1) : ~strictEquals(h[j].order.id, id)) - 1
    ELSE -1

\* A mutation of dequeueById: the replacement element is only sifted down.
dequeueById_downOnly(h, id) ==
    LET index == findIndex(h, id)
    IN  IF index = -1 THEN [heap |-> h, result |-> Null]
        ELSE IF index # Len(h) - 1
        THEN [heap |-> bubbleDown([popped(h) EXCEPT ![index + 1] = h[Len(h)]], index),
              result |-> h[index + 1].order]
        ELSE [heap |-> popped(h), result |-> h[index + 1].order]

\* A mutation of dequeueById: the not-found guard is missing, so the
\* removal acts on the end of the array.
dequeueById_noGuard(h, id) ==
    LET index == findIndex(h, id)
    IN  IF index = -1 THEN [heap |-> popped(h), result |-> Null]
        ELSE IF index # Len(h) - 1
        THEN [heap |-> bubbleUp(bubbleDown([popped(h) EXCEPT ![index + 1] = h[Len(h)]],
                                           index), index),
              result |-> h[index + 1].order]
        ELSE [heap |-> popped(h), result |-> h[index + 1].order]

dequeueById(h, id) ==
    LET index == findIndex(h, id)
    IN  IF index = -1 THEN [heap |-> h, result |-> Null]
        ELSE IF index # Len(h) - 1
        THEN [heap |-> bubbleUp(bubbleDown([popped(h) EXCEPT ![index + 1] = h[Len(h)]],
                                           index), index),
              result |-> h[index + 1].order]
        ELSE [heap |-> popped(h), result |-> h[index + 1].order]

isEmpty(h) == Len(h) = 0

size(h) == Len(h)

toArray(h) == [i \in 1..Len(h) |-> h[i].order]


(***************************************************************************)
(* ZipScheduler                                                            *)
(***************************************************************************)
\* Reserve this many Zips for emergencies
RESERVED_EMERGENCY_ZIPS == 4

\* Math.sqrt on a non-negative integer; exact when n is a perfect square,
\* which is the case for every pair of points of Hospitals and the Nest.
sqrt(n) == CHOOSE r \in 0..n : r * r <= n /\ (r + 1) * (r + 1) > n

\* A mutation of calculateDistance: the east offset is left out.
calculateDistance_northOnly(pointA, pointB) ==
    LET deltaX == pointB.northM - pointA.northM
    IN  sqrt(deltaX * deltaX)

calculateDistance(pointA, pointB) ==
    LET deltaX == pointB.northM - pointA.northM
        deltaY == pointB.eastM - pointA.eastM
    IN  sqrt(deltaX * deltaX + deltaY * deltaY)

\* A mutation of roundTripDistance: the way back is forgotten.
roundTripDistance_oneWay(order) == calculateDistance(Nest, order.hospital)

\* queueOrder: the distance to the hospital and back to the Nest
roundTripDistance(order) == 2 * calculateDistance(Nest, order.hospital)

\* queueOrder: the queue afterwards, and whether the range error was logged
queueOrder(h, order) ==
    IF roundTripDistance(order) > zipMaxCumulativeRangeM
    THEN [heap |-> h, rejected |-> TRUE]
    ELSE [heap |-> enqueue(h, order), rejected |-> FALSE]

countByPriority(h, priority) ==
    Len(SelectSeq(toArray(h), LAMBDA o : o.priority = priority))

\* A mutation of ordersOn: one per flight, not one per stop.
ordersOn_perFlight(entries) == Len(entries)

\* the number of orders on the flights of a list of active-flight entries
RECURSIVE ordersOn(_)
ordersOn(entries) ==
    IF entries = <<>> THEN 0
    ELSE Len(Head(entries).flight.orders) + ordersOn(Tail(entries))

\* returnTime is kept multiplied by zipSpeedMps, so that the division
\* totalDistance / zipSpeedMps is exact: an entry has returned by
\* currentTime iff returnTime <= currentTime * zipSpeedMps.
calculateReturnTime(launchTime, totalDistance) ==
    launchTime * zipSpeedMps + totalDistance

\* A mutation of hasReturned: < for <=.
hasReturned_strict(flightEntry, currentTime) ==
    flightEntry.returnTime < currentTime * zipSpeedMps

\* A mutation of hasReturned: a flight must have been back for a whole unit
\* of time.
hasReturned_late(flightEntry, currentTime) ==
    flightEntry.returnTime + zipSpeedMps <= currentTime * zipSpeedMps

hasReturned(flightEntry, currentTime) ==
    flightEntry.returnTime <= currentTime * zipSpeedMps

\* A mutation of releaseReturningZips: the returned entries are counted but
\* stay in the list.
releaseReturningZips_keepsEntries(active, count, currentTime) ==
    [activeFlights |-> active,
     completeOrderCount |->
        count + ordersOn(SelectSeq(active, LAMBDA e : hasReturned(e, currentTime)))]

releaseReturningZips(active, count, currentTime) ==
    [activeFlights |-> SelectSeq(active, LAMBDA e : ~hasReturned(e, currentTime)),
     completeOrderCount |->
        count + ordersOn(SelectSeq(active, LAMBDA e : hasReturned(e, currentTime)))]

\* Flight.ts: Zips can fly a total roundtrip distance (m)
ZIP_MAX_CUMULATIVE_RANGE_M == 160 * 1000

\* new Flight(launchTime, orders, totalDistance).  The battery estimate,
\* 100 - (totalDistance / ZIP_MAX_CUMULATIVE_RANGE_M) * 100, is kept
\* multiplied by ZIP_MAX_CUMULATIVE_RANGE_M, which keeps it an integer.
Flight(launchTime, orders, totalDistance) ==
    [launchTime |-> launchTime, orders |-> orders, totalDistance |-> totalDistance,
     estimatedReturnBatteryPercentage |->
         100 * ZIP_MAX_CUMULATIVE_RANGE_M - totalDistance * 100]

\* Infinity, as the starting value of a minimum over distances
Infinity == 1000000

\* availableOrders.indexOf(order), 0-based, -1 when absent
indexOf(orders, order) ==
    IF \E i \in 1..Len(orders) : orders[i] = order
    THEN (CHOOSE i \in 1..Len(orders) :
             /\ orders[i] = order
             /\ \A j \in 1..(i - 1) : orders[j] # order) - 1
    ELSE -1

\* availableOrders.splice(index, 1)
splice(orders, index) ==
    SubSeq(orders, 1, index) \o SubSeq(orders, index + 2, Len(orders))

\* the forEach of findNearestOrder from position idx (1-based) on, with the
\* running nearest / minDistance / index
RECURSIVE findNearestFrom(_, _, _, _, _)
findNearestFrom(orders, idx, currentLocation, availableOrders, acc) ==
    IF idx > Len(orders) THEN acc
    ELSE Let(calculateDistance(currentLocation, orders[idx].hospital),
             LAMBDA distance :
               IF distance < acc.distance
               THEN Let([order |-> orders[idx],
                         index |-> indexOf(availableOrders, orders[idx]),
                         distance |-> distance],
                        LAMBDA nearest :
                          findNearestFrom(orders, idx + 1, currentLocation,
                                          availableOrders, nearest))
               ELSE findNearestFrom(orders, idx + 1, currentLocation,
                                    availableOrders, acc))

\* A mutation of findNearestOrder: the first order of the list is taken,
\* whatever its distance.
findNearestOrder_first(orders, currentLocation, availableOrders) ==
    IF orders = <<>> THEN [order |-> Null, index |-> -1, distance |-> Infinity]
    ELSE [order |-> orders[1], index |-> indexOf(availableOrders, orders[1]),
          distance |-> calculateDistance(currentLocation, orders[1].hospital)]

\* findNearestOrder(orders); order = Null stands for the null result
findNearestOrder(orders, currentLocation, availableOrders) ==
    findNearestFrom(orders, 1, currentLocation, availableOrders,
                    [order |-> Null, index |-> -1, distance |-> Infinity])

\* A mutation of advance: the leg back to the Nest is added with every stop.
advance_withReturn(totalDistance, distanceToOrder, distanceBackToNest) ==
    totalDistance + distanceToOrder + distanceBackToNest

\* planFlight: totalDistance += distanceToOrder
advance(totalDistance, distanceToOrder, distanceBackToNest) ==
    totalDistance + distanceToOrder

\* A mutation of discardCandidate: the whole pool is dropped, which ends the
\* planning of the flight.
discardCandidate_all(availableOrders, index) == <<>>

\* planFlight: the pool after the infeasible candidate is removed "to
\* prevent repeated attempts"
discardCandidate(availableOrders, index) == splice(availableOrders, index)

\* A mutation of withinRange: the check is left out.
withinRange_noCheck(newTotalDistance) == TRUE

\* A mutation of withinRange: < for <=.
withinRange_strict(newTotalDistance) == newTotalDistance < zipMaxCumulativeRangeM

\* planFlight: newTotalDistance <= this.zipMaxCumulativeRangeM
withinRange(newTotalDistance) == newTotalDistance <= zipMaxCumulativeRangeM

\* A mutation of belowCapacity: <= for <.
belowCapacity_orEqual(flightOrders) == Len(flightOrders) <= maxPackagesPerZip

\* planFlight: flightOrders.length < this.maxPackagesPerZip
belowCapacity(flightOrders) == Len(flightOrders) < maxPackagesPerZip

\* A mutation of selectNearest: the nearest order of the whole pool is
\* taken, whatever its class.
selectNearest_anyClass(emergencyOrders, nonEmergencyOrders, currentLocation, availableOrders) ==
    findNearestOrder(availableOrders, currentLocation, availableOrders)

\* A mutation of selectNearest: the two classes are tried in the other order.
selectNearest_resupplyFirst(emergencyOrders, nonEmergencyOrders, currentLocation, availableOrders) ==
    Let(findNearestOrder(nonEmergencyOrders, currentLocation, availableOrders),
        LAMBDA nearestNonEmergency :
          IF nearestNonEmergency.order # Null THEN nearestNonEmergency
          ELSE findNearestOrder(emergencyOrders, currentLocation, availableOrders))

\* planFlight: the nearest Emergency order if there is one, otherwise the
\* nearest non-Emergency order
selectNearest(emergencyOrders, nonEmergencyOrders, currentLocation, availableOrders) ==
    Let(findNearestOrder(emergencyOrders, currentLocation, availableOrders),
        LAMBDA nearestEmergency :
          IF nearestEmergency.order # Null THEN nearestEmergency
          ELSE findNearestOrder(nonEmergencyOrders, currentLocation,
                                availableOrders))

\* one more pass through the body of a loop
counted(result) == [result EXCEPT !.iterations = @ + 1]

\* the while loop of planFlight; iterations counts the passes through its body
RECURSIVE planLoop(_, _, _, _)
planLoop(flightOrders, totalDistance, currentLocation, availableOrders) ==
    IF belowCapacity(flightOrders) /\ Len(availableOrders) > 0
    THEN LET emergencyOrders ==
                 SelectSeq(availableOrders, LAMBDA o : o.priority = "Emergency")
             nonEmergencyOrders ==
                 SelectSeq(availableOrders, LAMBDA o : o.priority # "Emergency")
         IN  Let(selectNearest(emergencyOrders, nonEmergencyOrders, currentLocation,
                               availableOrders), LAMBDA selected :
               IF selected.order = Null \/ selected.index = -1
               THEN [flightOrders |-> flightOrders, totalDistance |-> totalDistance,
                     currentLocation |-> currentLocation, iterations |-> 1]
               ELSE LET distanceToOrder == selected.distance
                        distanceBackToNest ==
                            calculateDistance(selected.order.hospital, Nest)
                        newTotalDistance ==
                            totalDistance + distanceToOrder + distanceBackToNest
                    IN  IF withinRange(newTotalDistance)
                        THEN Let(<<Append(flightOrders, selected.order),
                                   advance(totalDistance, distanceToOrder,
                                           distanceBackToNest),
                                   splice(availableOrders, selected.index)>>,
                                 LAMBDA next :
                                   counted(planLoop(next[1], next[2],
                                                    selected.order.hospital,
                                                    next[3])))
                        ELSE Let(discardCandidate(availableOrders, selected.index),
                                 LAMBDA remaining :
                                   counted(planLoop(flightOrders, totalDistance,
                                                    currentLocation, remaining))))
    ELSE [flightOrders |-> flightOrders, totalDistance |-> totalDistance,
          currentLocation |-> currentLocation, iterations |-> 0]

planFlight(h) ==
    Let(toArray(h), LAMBDA availableOrders :
      Let(planLoop(<<>>, 0, Nest, availableOrders), LAMBDA loop :
        [flightOrders |-> loop.flightOrders,
         totalDistance |->
            IF Len(loop.flightOrders) > 0
            THEN loop.totalDistance + calculateDistance(loop.currentLocation, Nest)
            ELSE loop.totalDistance,
         iterations |-> loop.iterations]))

\* A mutation of dequeueAll: the orders of the flight are left in the queue.
dequeueAll_none(h, flightOrders, i, failed) == [heap |-> h, failed |-> failed]

\* A mutation of dequeueAll: only the first order of the flight is dequeued.
dequeueAll_firstOnly(h, flightOrders, i, failed) ==
    IF Len(flightOrders) = 0 THEN [heap |-> h, failed |-> failed]
    ELSE Let(dequeueById(h, flightOrders[1].id), LAMBDA r :
           [heap |-> r.heap,
            failed |-> IF r.result = Null THEN failed + 1 ELSE failed])

\* flightOrders.forEach(order => dequeueById(order.id)), from position i on;
\* failed counts the "Failed to dequeue order" errors
RECURSIVE dequeueAll(_, _, _, _)
dequeueAll(h, flightOrders, i, failed) ==
    IF i > Len(flightOrders) THEN [heap |-> h, failed |-> failed]
    ELSE Let(dequeueById(h, flightOrders[i].id), LAMBDA r :
           Let(r.heap, LAMBDA rest :
             dequeueAll(rest, flightOrders, i + 1,
                        IF r.result = Null THEN failed + 1 ELSE failed)))

\* A mutation of availableZipsAt: the active flights are not subtracted.
availableZipsAt_ignoreActive(active) == numZips

\* let availableZips = this.numZips - this.activeFlights.length
availableZipsAt(active) == numZips - Len(active)

\* A mutation of emergencySkips: emergency flights need the reserve too.
emergencySkips_reserve(emergencyCount, availableZips) ==
    emergencyCount # 0 /\ availableZips < RESERVED_EMERGENCY_ZIPS

\* "Skipping emergency flight due to insufficient available Zips"
emergencySkips(emergencyCount, availableZips) ==
    emergencyCount # 0 /\ availableZips < 1

\* A mutation of reservationSkips: the test on emergencyCount is the one of
\* the emergency branch above it.
reservationSkips_emergency(emergencyCount, availableZips) ==
    emergencyCount # 0 /\ availableZips < RESERVED_EMERGENCY_ZIPS

\* A mutation of reservationSkips: <= for <.
reservationSkips_orEqual(emergencyCount, availableZips) ==
    emergencyCount = 0 /\ availableZips <= RESERVED_EMERGENCY_ZIPS

\* "Skipping resupply flight due to insufficient resupply Zips"
reservationSkips(emergencyCount, availableZips) ==
    emergencyCount = 0 /\ availableZips < RESERVED_EMERGENCY_ZIPS

\* A mutation of launchLoop: the planned orders leave the live queue when
\* they are planned, before the loop decides whether the flight is launched.
RECURSIVE launchLoop_planRemoves(_, _, _, _, _, _, _)
launchLoop_planRemoves(h, active, flights, availableZips, avail, failed, currentTime) ==
    LET done(exit, withheld, queue) ==
            [heap |-> queue, activeFlights |-> active, flights |-> flights,
             avail |-> avail, failed |-> failed, withheld |-> withheld,
             exit |-> exit]
    IN  IF availableZips > 0 /\ ~isEmpty(h)
        THEN LET emergencyCount == countByPriority(h, "Emergency")
             IN  Let(planFlight(h), LAMBDA plan :
                   Let(dequeueAll(h, plan.flightOrders, 1, failed), LAMBDA removed :
                     IF Len(plan.flightOrders) = 0
                     THEN done("noOrdersFit", <<>>, removed.heap)
                     ELSE IF emergencySkips(emergencyCount, availableZips)
                     THEN done("emergencySkipped", plan.flightOrders, removed.heap)
                     ELSE IF reservationSkips(emergencyCount, availableZips)
                     THEN done("resupplySkipped", plan.flightOrders, removed.heap)
                     ELSE LET flight == Flight(currentTime, plan.flightOrders,
                                               plan.totalDistance)
                              returnTime ==
                                  calculateReturnTime(currentTime, plan.totalDistance)
                          IN  Let([active |-> Append(active, [returnTime |-> returnTime,
                                                              flight |-> flight]),
                                   flights |-> Append(flights, flight),
                                   availableZips |-> availableZips - 1,
                                   avail |-> Append(avail, availableZips)],
                                  LAMBDA next :
                                    launchLoop_planRemoves(
                                        removed.heap, next.active, next.flights,
                                        next.availableZips, next.avail,
                                        removed.failed, currentTime))))
        ELSE done("loopEnded", <<>>, h)

\* A mutation of launchLoop: availableZips is not decremented after a launch.
RECURSIVE launchLoop_noDecrement(_, _, _, _, _, _, _)
launchLoop_noDecrement(h, active, flights, availableZips, avail, failed, currentTime) ==
    LET done(exit, withheld) ==
            [heap |-> h, activeFlights |-> active, flights |-> flights,
             avail |-> avail, failed |-> failed, withheld |-> withheld,
             exit |-> exit]
    IN  IF availableZips > 0 /\ ~isEmpty(h)
        THEN LET emergencyCount == countByPriority(h, "Emergency")
             IN  Let(planFlight(h), LAMBDA plan :
                   IF Len(plan.flightOrders) = 0 THEN done("noOrdersFit", <<>>)
                   ELSE IF emergencySkips(emergencyCount, availableZips)
                   THEN done("emergencySkipped", plan.flightOrders)
                   ELSE IF reservationSkips(emergencyCount, availableZips)
                   THEN done("resupplySkipped", plan.flightOrders)
                   ELSE LET flight == Flight(currentTime, plan.flightOrders, plan.totalDistance)
                            returnTime == calculateReturnTime(currentTime, plan.totalDistance)
                        IN  Let([removed |-> dequeueAll(h, plan.flightOrders, 1, failed),
                                 active |-> Append(active, [returnTime |-> returnTime, flight |-> flight]),
                                 flights |-> Append(flights, flight),
                                 avail |-> Append(avail, availableZips)],
                                LAMBDA next :
                                  launchLoop_noDecrement(
                                      next.removed.heap, next.active, next.flights,
                                      availableZips, next.avail, next.removed.failed,
                                      currentTime)))
        ELSE done("loopEnded", <<>>)

\* The while loop of launchFlights.  avail lists, per launched flight, the
\* value of availableZips when it was launched; withheld is the planned
\* flight the loop refused to launch, if any; exit says how the loop ended.
RECURSIVE launchLoop(_, _, _, _, _, _, _)
launchLoop(h, active, flights, availableZips, avail, failed, currentTime) ==
    LET done(exit, withheld) ==
            [heap |-> h, activeFlights |-> active, flights |-> flights,
             avail |-> avail, failed |-> failed, withheld |-> withheld,
             exit |-> exit]
    IN  IF availableZips > 0 /\ ~isEmpty(h)
        THEN LET emergencyCount == countByPriority(h, "Emergency")
             IN  Let(planFlight(h), LAMBDA plan :
                   IF Len(plan.flightOrders) = 0 THEN done("noOrdersFit", <<>>)
                   ELSE IF emergencySkips(emergencyCount, availableZips)
                   THEN done("emergencySkipped", plan.flightOrders)
                   ELSE IF reservationSkips(emergencyCount, availableZips)
                   THEN done("resupplySkipped", plan.flightOrders)
                   ELSE LET flight == Flight(currentTime, plan.flightOrders,
                                             plan.totalDistance)
                            returnTime ==
                                calculateReturnTime(currentTime, plan.totalDistance)
                        IN  Let([removed |-> dequeueAll(h, plan.flightOrders, 1, failed),
                                 active |-> Append(active, [returnTime |-> returnTime,
                                                            flight |-> flight]),
                                 flights |-> Append(flights, flight),
                                 availableZips |-> availableZips - 1,
                                 avail |-> Append(avail, availableZips)],
                                LAMBDA next :
                                  launchLoop(next.removed.heap, next.active,
                                             next.flights, next.availableZips,
                                             next.avail, next.removed.failed,
                                             currentTime)))
        ELSE done("loopEnded", <<>>)

\* A mutation of launchFlights: the release step is left out.
launchFlights_noRelease(h, active, count, currentTime) ==
    Let(IF isEmpty(h)
        THEN [heap |-> h, activeFlights |-> active,
              flights |-> <<>>, avail |-> <<>>, failed |-> 0,
              withheld |-> <<>>, exit |-> "queueEmpty"]
        ELSE launchLoop(h, active, <<>>, availableZipsAt(active), <<>>, 0,
                        currentTime),
        LAMBDA loop :
          [heap |-> loop.heap, activeFlights |-> loop.activeFlights,
           completeOrderCount |-> count,
           flights |-> loop.flights, avail |-> loop.avail,
           failed |-> loop.failed, withheld |-> loop.withheld,
           exit |-> loop.exit])

launchFlights(h, active, count, currentTime) ==
    Let(releaseReturningZips(active, count, currentTime), LAMBDA released :
      Let(availableZipsAt(released.activeFlights), LAMBDA availableZips :
        Let(IF isEmpty(h)
            THEN [heap |-> h, activeFlights |-> released.activeFlights,
                  flights |-> <<>>, avail |-> <<>>, failed |-> 0,
                  withheld |-> <<>>, exit |-> "queueEmpty"]
            ELSE launchLoop(h, released.activeFlights, <<>>, availableZips,
                            <<>>, 0, currentTime),
            LAMBDA loop :
              [heap |-> loop.heap, activeFlights |-> loop.activeFlights,
               completeOrderCount |-> released.completeOrderCount,
               flights |-> loop.flights, avail |-> loop.avail,
               failed |-> loop.failed, withheld |-> loop.withheld,
               exit |-> loop.exit])))

(***************************************************************************)
(* History record of the last call: its name, its arguments and what it    *)
(* returned.                                                               *)
(***************************************************************************)
NoCall ==
    [op |-> "none", id |-> 0, found |-> FALSE, movedUp |-> FALSE,
     order |-> Null, rejected |-> FALSE, flights |-> <<>>,
     avail |-> <<>>, withheld |-> <<>>, exit |-> "none",
     time |-> 0, released |-> <<>>, again |-> FALSE, prior |-> <<>>,
     failed |-> 0, queued |-> <<>>, launched |-> FALSE]

\* the entries of the active list before a call that are gone after it
releasedBy(before, after) ==
    SelectSeq(before, LAMBDA e : \A k \in 1..Len(after) : after[k] # e)

(***************************************************************************)
(* The scheduler: any interleaving of queueOrder, launchFlights and        *)
(* releaseReturningZips, with any times, for every fleet size and          *)
(* capacity within the bounds.                                             *)
(***************************************************************************)
Init ==
    /\ heap = <<>>
    /\ activeFlights = <<>>
    /\ completeOrderCount = 0
    /\ numZips \in 1..MaxZips
    /\ maxPackagesPerZip \in 1..MaxPackages
    /\ zipSpeedMps = 16
    /\ zipMaxCumulativeRangeM = 16
    /\ nextId = 1
    /\ rejectedIds = {}
    /\ last = NoCall
    /\ runnerOrders = <<>>
    /\ secondsSinceMidnight = 0

QueueOrder ==
    /\ nextId <= MaxOrders
    /\ \E hospital \in Destinations, p \in Priorities, t \in {nextId} :
         LET order == [id |-> nextId, hospital |-> hospital, priority |-> p,
                       time |-> t]
         IN  \E r \in {queueOrder(heap, order)} :
             /\ heap' = r.heap
             /\ rejectedIds' = IF r.rejected THEN rejectedIds \cup {order.id}
                               ELSE rejectedIds
             /\ last' = [NoCall EXCEPT !.op = "queueOrder", !.order = order,
                                       !.rejected = r.rejected]
    /\ nextId' = nextId + 1
    /\ UNCHANGED <<runner, activeFlights, completeOrderCount, config>>

LaunchFlights ==
    /\ \E currentTime \in 0..MaxTime :
         \E r \in {launchFlights(heap, activeFlights, completeOrderCount,
                                  currentTime)} :
             /\ heap' = r.heap
             /\ activeFlights' = r.activeFlights
             /\ completeOrderCount' = r.completeOrderCount
             /\ last' = [NoCall EXCEPT !.op = "launchFlights",
                                       !.flights = r.flights, !.avail = r.avail,
                                       !.withheld = r.withheld, !.exit = r.exit,
                                       !.time = currentTime,
                                       !.released =
                                           releasedBy(activeFlights, r.activeFlights),
                                       !.failed = r.failed]
    /\ UNCHANGED <<runner, config, nextId, rejectedIds>>

ReleaseReturningZips ==
    /\ \E currentTime \in 0..MaxTime :
         \E r \in {releaseReturningZips(activeFlights, completeOrderCount,
                                         currentTime)} :
             /\ activeFlights' = r.activeFlights
             /\ completeOrderCount' = r.completeOrderCount
             /\ last' = [NoCall EXCEPT
                           !.op = "releaseReturningZips",
                           !.time = currentTime,
                           !.released = releasedBy(activeFlights, r.activeFlights),
                           !.again = (last.op = "releaseReturningZips"
                                      /\ last.time = currentTime),
                           !.prior = IF last.op = "releaseReturningZips"
                                        /\ last.time = currentTime
                                     THEN last.released ELSE <<>>]
    /\ UNCHANGED <<runner, heap, config, nextId, rejectedIds>>

Next == QueueOrder \/ LaunchFlights \/ ReleaseReturningZips

Spec == Init /\ [][Next]_vars

(***************************************************************************)
(* The scheduler under a caller whose clock keeps growing: whatever else   *)
(* happens, the release step is called again at a time by which every     *)
(* flight launched within MaxTime is back (a flight is at most             *)
(* zipMaxCumulativeRangeM long, one unit of time at zipSpeedMps).          *)
(***************************************************************************)
Horizon == MaxTime + 1

ReleaseLater ==
    /\ \E r \in {releaseReturningZips(activeFlights, completeOrderCount, Horizon)} :
             /\ activeFlights' = r.activeFlights
             /\ completeOrderCount' = r.completeOrderCount
             /\ last' = [NoCall EXCEPT
                           !.op = "releaseReturningZips",
                           !.time = Horizon,
                           !.released = releasedBy(activeFlights, r.activeFlights),
                           !.again = (last.op = "releaseReturningZips"
                                      /\ last.time = Horizon),
                           !.prior = IF last.op = "releaseReturningZips"
                                        /\ last.time = Horizon
                                     THEN last.released ELSE <<>>]
    /\ UNCHANGED <<runner, heap, config, nextId, rejectedIds>>

NextLive == QueueOrder \/ LaunchFlights \/ ReleaseReturningZips \/ ReleaseLater

SpecLive == Init /\ [][NextLive]_vars /\ WF_vars(ReleaseLater)

(***************************************************************************)
(* The scheduler with orders to hospitals A, B and C: a flight can then    *)
(* visit two different hospitals (Nest -> A -> B -> Nest is exactly the    *)
(* range).                                                                 *)
(***************************************************************************)
InitRoute ==
    /\ heap = <<>>
    /\ activeFlights = <<>>
    /\ completeOrderCount = 0
    /\ numZips \in {1, MaxZips}
    /\ maxPackagesPerZip = MaxPackages
    /\ zipSpeedMps = 16
    /\ zipMaxCumulativeRangeM = 16
    /\ nextId = 1
    /\ rejectedIds = {}
    /\ last = NoCall
    /\ runnerOrders = <<>>
    /\ secondsSinceMidnight = 0

QueueOrderRoute ==
    /\ nextId <= MaxOrders
    /\ \E name \in {"A", "B", "C"}, p \in Priorities :
         LET order == [id |-> nextId, hospital |-> HospitalNamed(name),
                       priority |-> p, time |-> nextId]
         IN  \E r \in {queueOrder(heap, order)} :
             /\ heap' = r.heap
             /\ rejectedIds' = IF r.rejected THEN rejectedIds \cup {order.id}
                               ELSE rejectedIds
             /\ last' = [NoCall EXCEPT !.op = "queueOrder", !.order = order,
                                       !.rejected = r.rejected]
    /\ nextId' = nextId + 1
    /\ UNCHANGED <<runner, activeFlights, completeOrderCount, config>>

NextRoute == QueueOrderRoute \/ LaunchFlights \/ ReleaseReturningZips

SpecRoute == InitRoute /\ [][NextRoute]_vars

(***************************************************************************)
(* The scheduler when the caller's order ids are not all proper values: an *)
(* order may carry the id NaN.  The fleet is small, so that one call uses  *)
(* it up.                                                                  *)
(***************************************************************************)
InitIds ==
    /\ heap = <<>>
    /\ activeFlights = <<>>
    /\ completeOrderCount = 0
    /\ numZips \in 1..2
    /\ maxPackagesPerZip \in 1..MaxPackages
    /\ zipSpeedMps = 16
    /\ zipMaxCumulativeRangeM = 16
    /\ nextId = 1
    /\ rejectedIds = {}
    /\ last = NoCall
    /\ runnerOrders = <<>>
    /\ secondsSinceMidnight = 0

QueueOrderAnyId ==
    /\ nextId <= MaxOrders
    /\ \E hospital \in Destinations, p \in Priorities, id \in {nextId, NaN} :
         LET order == [id |-> id, hospital |-> hospital, priority |-> p,
                       time |-> nextId]
         IN  \E r \in {queueOrder(heap, order)} :
             /\ heap' = r.heap
             /\ rejectedIds' = IF r.rejected THEN rejectedIds \cup {order.id}
                               ELSE rejectedIds
             /\ last' = [NoCall EXCEPT !.op = "queueOrder", !.order = order,
                                       !.rejected = r.rejected]
    /\ nextId' = nextId + 1
    /\ UNCHANGED <<runner, activeFlights, completeOrderCount, config>>

\* An order whose id is NaN is launched again and again, so the completed
\* counter has no bound of its own: launching stops once it exceeds the
\* number of orders.
LaunchFlightsAnyId ==
    /\ completeOrderCount <= MaxOrders
    /\ LaunchFlights

NextIds == QueueOrderAnyId \/ LaunchFlightsAnyId \/ ReleaseReturningZips

SpecIds == InitIds /\ [][NextIds]_vars

(***************************************************************************)
(* The scheduler with a fleet no smaller than the reserve, under a caller  *)
(* with a clock: last.time is the time of the caller's latest              *)
(* launchFlights call.  Orders arrive up to time MaxTime; launchFlights is  *)
(* called again at the same time or one unit later, up to MaxClock, by      *)
(* which every order that arrived can have flown (one Resupply flight per   *)
(* unit of time in the worst case) and returned.                            *)
(***************************************************************************)
MaxClock == MaxTime + MaxOrders + 1

InitFleet ==
    /\ heap = <<>>
    /\ activeFlights = <<>>
    /\ completeOrderCount = 0
    /\ numZips \in RESERVED_EMERGENCY_ZIPS..MaxZips
    /\ maxPackagesPerZip \in 1..MaxPackages
    /\ zipSpeedMps = 16
    /\ zipMaxCumulativeRangeM = 16
    /\ nextId = 1
    /\ rejectedIds = {}
    /\ last = NoCall
    /\ runnerOrders = <<>>
    /\ secondsSinceMidnight = 0

QueueOrderFleet ==
    /\ nextId <= MaxOrders
    /\ last.time <= MaxTime
    /\ \E hospital \in Destinations, p \in Priorities :
         LET order == [id |-> nextId, hospital |-> hospital, priority |-> p,
                       time |-> nextId]
         IN  \E r \in {queueOrder(heap, order)} :
             /\ heap' = r.heap
             /\ rejectedIds' = IF r.rejected THEN rejectedIds \cup {order.id}
                               ELSE rejectedIds
             /\ last' = [NoCall EXCEPT !.op = "queueOrder", !.order = order,
                                       !.rejected = r.rejected,
                                       !.time = last.time]
    /\ nextId' = nextId + 1
    /\ UNCHANGED <<runner, activeFlights, completeOrderCount, config>>

LaunchFlightsAt(currentTime) ==
    /\ \E r \in {launchFlights(heap, activeFlights, completeOrderCount,
                                currentTime)} :
             /\ heap' = r.heap
             /\ activeFlights' = r.activeFlights
             /\ completeOrderCount' = r.completeOrderCount
             /\ last' = [NoCall EXCEPT !.op = "launchFlights",
                                       !.flights = r.flights, !.avail = r.avail,
                                       !.withheld = r.withheld, !.exit = r.exit,
                                       !.time = currentTime,
                                       !.released =
                                           releasedBy(activeFlights, r.activeFlights),
                                       !.failed = r.failed]
    /\ UNCHANGED <<runner, config, nextId, rejectedIds>>

LaunchFlightsNow == LaunchFlightsAt(last.time)

LaunchFlightsLater ==
    /\ last.time < MaxClock
    /\ LaunchFlightsAt(last.time + 1)

NextFleet == QueueOrderFleet \/ LaunchFlightsNow \/ LaunchFlightsLater

SpecFleet == InitFleet /\ [][NextFleet]_vars /\ WF_vars(LaunchFlightsLater)

(***************************************************************************)
(* The Runner: run() plays a sorted list of orders back second by second.  *)
(* One step is one pass through the body of its for loop.                  *)
(***************************************************************************)
\* const secondsPerDay = 24 * 60 * 60, for a day of MaxMinutes minutes
secondsPerDay == MaxMinutes * 60

\* secondsSinceMidnight % 60 === 0
isLaunchTick(t) == t % 60 = 0

\* the arrival times of the orders in the file
ArrivalSeconds == {0, 1, 59, 60, 61, secondsPerDay - 1}

\* the order lists Order.loadFromCsv can return: sorted by time, within the
\* day; the id of an order is its position in the file
OrderLists ==
    UNION {{[i \in 1..n |-> [id |-> i, hospital |-> HospitalNamed("A"),
                              priority |-> f[i][2], time |-> f[i][1]]] :
               f \in {g \in [1..n -> ArrivalSeconds \X Priorities] :
                          \A i \in 1..(n - 1) : g[i][1] <= g[i + 1][1]}} :
           n \in 0..MaxRunnerOrders}

\* A mutation of queuePendingOrders: if for while.
queuePendingOrders_once(h, pending, t) ==
    IF Len(pending) > 0 /\ pending[1].time = t
    THEN Let(queueOrder(h, pending[1]), LAMBDA r :
           [heap |-> r.heap, orders |-> Tail(pending), queued |-> <<pending[1]>>,
            rejected |-> IF r.rejected THEN {pending[1].id} ELSE {}])
    ELSE [heap |-> h, orders |-> pending, queued |-> <<>>, rejected |-> {}]

\* Runner._queuePendingOrders: while the first pending order is due now,
\* shift it and pass it to queueOrder
RECURSIVE queuePendingOrders(_, _, _)
queuePendingOrders(h, pending, t) ==
    IF Len(pending) > 0 /\ pending[1].time = t
    THEN Let(queueOrder(h, pending[1]), LAMBDA r :
           Let(queuePendingOrders(r.heap, Tail(pending), t), LAMBDA rest :
             [rest EXCEPT !.queued = <<pending[1]>> \o @,
                          !.rejected = IF r.rejected THEN @ \cup {pending[1].id}
                                       ELSE @]))
    ELSE [heap |-> h, orders |-> pending, queued |-> <<>>, rejected |-> {}]

InitRunner ==
    /\ heap = <<>>
    /\ activeFlights = <<>>
    /\ completeOrderCount = 0
    /\ numZips = MaxZips
    /\ maxPackagesPerZip = MaxPackages
    /\ zipSpeedMps = 16
    /\ zipMaxCumulativeRangeM = 16
    /\ runnerOrders \in OrderLists
    /\ nextId = Len(runnerOrders) + 1
    /\ rejectedIds = {}
    /\ last = NoCall
    /\ secondsSinceMidnight = IF Len(runnerOrders) > 0 THEN runnerOrders[1].time - 1
                              ELSE 0

RunTick ==
    /\ secondsSinceMidnight < secondsPerDay
    /\ \E q \in {queuePendingOrders(heap, runnerOrders, secondsSinceMidnight)} :
         \E r \in {IF isLaunchTick(secondsSinceMidnight)
                   THEN launchFlights(q.heap, activeFlights, completeOrderCount,
                                      secondsSinceMidnight)
                   ELSE [heap |-> q.heap, activeFlights |-> activeFlights,
                         completeOrderCount |-> completeOrderCount,
                         flights |-> <<>>, avail |-> <<>>, failed |-> 0,
                         withheld |-> <<>>, exit |-> "none"]} :
             /\ heap' = r.heap
             /\ activeFlights' = r.activeFlights
             /\ completeOrderCount' = r.completeOrderCount
             /\ runnerOrders' = q.orders
             /\ rejectedIds' = rejectedIds \cup q.rejected
             /\ last' = [NoCall EXCEPT
                           !.op = "run",
                           !.time = secondsSinceMidnight,
                           !.queued = q.queued,
                           !.launched = isLaunchTick(secondsSinceMidnight),
                           !.flights = r.flights, !.avail = r.avail,
                           !.withheld = r.withheld, !.exit = r.exit,
                           !.released = releasedBy(activeFlights, r.activeFlights),
                           !.failed = r.failed]
    /\ secondsSinceMidnight' = secondsSinceMidnight + 1
    /\ UNCHANGED <<config, nextId>>

NextRunner == RunTick

SpecRunner == InitRunner /\ [][NextRunner]_vars

(***************************************************************************)
(* The ZipScheduler of src/index.ts, an earlier variant that keeps the     *)
(* unfulfilled orders in a sorted array.  In SpecIndex the variable heap    *)
(* holds that array, _unfulfilledOrders (a sequence of orders), and         *)
(* completeOrderCount, which the variant does not have, stays 0.            *)
(***************************************************************************)
\* index.ts: Reserve this many Zips for emergencies
INDEX_RESERVED_EMERGENCY_ZIPS == 5

\* the comparator of both sorts of index.ts
indexCompare(a, b) ==
    IF a.priority = b.priority THEN a.time - b.time
    ELSE IndexOfPriority(a.priority) - IndexOfPriority(b.priority)

\* Array.prototype.sort with indexCompare (a stable sort), by insertion
RECURSIVE indexSort(_)
indexSort(arr) ==
    IF Len(arr) = 0 THEN <<>>
    ELSE Let(indexSort(SubSeq(arr, 1, Len(arr) - 1)), LAMBDA front :
           LET x == arr[Len(arr)]
               before == SelectSeq(front, LAMBDA e : indexCompare(e, x) <= 0)
               after == SelectSeq(front, LAMBDA e : indexCompare(e, x) > 0)
           IN  before \o <<x>> \o after)

\* index.ts queueOrder: push, then sort
indexQueueOrder(pending, order) == indexSort(Append(pending, order))

\* the for loop of index.ts planFlight over sortedOrders, from position i
RECURSIVE indexPlanLoop(_, _, _, _, _)
indexPlanLoop(sortedOrders, i, flightOrders, totalDistance, currentLocation) ==
    IF i > Len(sortedOrders) \/ Len(flightOrders) >= maxPackagesPerZip
    THEN [flightOrders |-> flightOrders, totalDistance |-> totalDistance,
          currentLocation |-> currentLocation]
    ELSE LET order == sortedOrders[i]
             distanceToOrder == calculateDistance(currentLocation, order.hospital)
             distanceBackToNest == calculateDistance(order.hospital, Nest)
             newTotalDistance == totalDistance + distanceToOrder + distanceBackToNest
         IN  IF newTotalDistance > zipMaxCumulativeRangeM
             THEN indexPlanLoop(sortedOrders, i + 1, flightOrders, totalDistance,
                                currentLocation)
             ELSE Let(<<Append(flightOrders, order), totalDistance + distanceToOrder>>,
                      LAMBDA next :
                        indexPlanLoop(sortedOrders, i + 1, next[1], next[2],
                                      order.hospital))

\* index.ts planFlight(orders)
indexPlanFlight(pending) ==
    Let(indexPlanLoop(indexSort(pending), 1, <<>>, 0, Nest), LAMBDA loop :
      [flightOrders |-> loop.flightOrders,
       totalDistance |->
           loop.totalDistance + calculateDistance(loop.currentLocation, Nest)])

\* the while loop of index.ts launchFlights
RECURSIVE indexLaunchLoop(_, _, _, _, _)
indexLaunchLoop(pending, active, flights, availableZips, currentTime) ==
    LET done == [pending |-> pending, activeFlights |-> active, flights |-> flights]
    IN  IF Len(pending) > 0
        THEN LET isEmergencyOrder == pending[1].priority = "Emergency"
             IN  IF ~isEmergencyOrder /\ availableZips <= INDEX_RESERVED_EMERGENCY_ZIPS
                 THEN done
                 ELSE Let(indexPlanFlight(pending), LAMBDA plan :
                        IF Len(plan.flightOrders) > 0
                        THEN LET flight == Flight(currentTime, plan.flightOrders,
                                                  plan.totalDistance)
                                 returnTime ==
                                     calculateReturnTime(currentTime, plan.totalDistance)
                             IN  Let([pending |->
                                          SelectSeq(indexSort(pending), LAMBDA o :
                                              \A j \in 1..Len(plan.flightOrders) :
                                                  plan.flightOrders[j] # o),
                                      active |-> Append(active,
                                                        [returnTime |-> returnTime,
                                                         flight |-> flight]),
                                      flights |-> Append(flights, flight)],
                                     LAMBDA next :
                                       indexLaunchLoop(next.pending, next.active,
                                                       next.flights, availableZips - 1,
                                                       currentTime))
                        ELSE done)
        ELSE done

\* index.ts launchFlights(currentTime)
indexLaunchFlights(pending, active, currentTime) ==
    Let(SelectSeq(active, LAMBDA e : ~hasReturned(e, currentTime)), LAMBDA released :
      Let(numZips - Len(released), LAMBDA availableZips :
        IF Len(pending) = 0 \/ availableZips <= 0
        THEN [pending |-> pending, activeFlights |-> released, flights |-> <<>>]
        ELSE indexLaunchLoop(pending, released, <<>>, availableZips, currentTime)))

InitIndex ==
    /\ heap = <<>>
    /\ activeFlights = <<>>
    /\ completeOrderCount = 0
    /\ numZips \in 1..MaxZips
    /\ maxPackagesPerZip \in 1..MaxPackages
    /\ zipSpeedMps = 16
    /\ zipMaxCumulativeRangeM = 16
    /\ nextId = 1
    /\ rejectedIds = {}
    /\ last = NoCall
    /\ runnerOrders = <<>>
    /\ secondsSinceMidnight = 0

IndexQueueOrder ==
    /\ nextId <= MaxOrders
    /\ \E hospital \in Destinations, p \in Priorities :
         LET order == [id |-> nextId, hospital |-> hospital, priority |-> p,
                       time |-> nextId]
         IN  /\ heap' = indexQueueOrder(heap, order)
             /\ last' = [NoCall EXCEPT !.op = "queueOrder", !.order = order]
    /\ nextId' = nextId + 1
    /\ UNCHANGED <<runner, activeFlights, completeOrderCount, config, rejectedIds>>

IndexLaunchFlights ==
    /\ \E currentTime \in 0..MaxTime :
         \E r \in {indexLaunchFlights(heap, activeFlights, currentTime)} :
             /\ heap' = r.pending
             /\ activeFlights' = r.activeFlights
             /\ last' = [NoCall EXCEPT !.op = "launchFlights",
                                       !.flights = r.flights,
                                       !.time = currentTime,
                                       !.released =
                                           releasedBy(activeFlights, r.activeFlights)]
    /\ UNCHANGED <<runner, completeOrderCount, config, nextId, rejectedIds>>

NextIndex == IndexQueueOrder \/ IndexLaunchFlights

SpecIndex == InitIndex /\ [][NextIndex]_vars

(***************************************************************************)
(* The queue on its own: any interleaving of enqueue, dequeue and          *)
(* dequeueById.                                                            *)
(***************************************************************************)
InitPQ ==
    /\ heap = <<>>
    /\ activeFlights = <<>>
    /\ completeOrderCount = 0
    /\ numZips = 5
    /\ maxPackagesPerZip = 1
    /\ zipSpeedMps = 16
    /\ zipMaxCumulativeRangeM = 16
    /\ nextId = 1
    /\ rejectedIds = {}
    /\ last = NoCall
    /\ runnerOrders = <<>>
    /\ secondsSinceMidnight = 0

PQEnqueue ==
    /\ nextId <= MaxEnqueues
    /\ \E p \in Priorities, t \in ArrivalTimes(nextId) :
         heap' = enqueue(heap, [id |-> nextId, hospital |-> HospitalNamed("A"),
                                priority |-> p, time |-> t])
    /\ last' = [NoCall EXCEPT !.op = "enqueue"]
    /\ nextId' = nextId + 1
    /\ UNCHANGED <<runner, activeFlights, completeOrderCount, config, rejectedIds>>

PQDequeue ==
    /\ \E r \in {dequeue(heap)} :
           /\ heap' = r.heap
           /\ last' = [NoCall EXCEPT !.op = "dequeue", !.found = (r.result # Null)]
    /\ UNCHANGED <<runner, activeFlights, completeOrderCount, config, nextId, rejectedIds>>

PQDequeueById ==
    /\ \E id \in 1..nextId :
         \E r \in {dequeueById(heap, id)}, index \in {findIndex(heap, id)} :
             /\ heap' = r.heap
             /\ last' = [NoCall EXCEPT
                           !.op = "dequeueById", !.id = id,
                           !.found = (r.result # Null),
                           !.movedUp = /\ index >= 0
                                       /\ index < Len(r.heap)
                                       /\ r.heap[index + 1] # heap[Len(heap)]
                                       /\ bubbleDown(r.heap, index) = r.heap
                                       /\ \E j \in 0..(index - 1) :
                                            r.heap[j + 1] = heap[Len(heap)]]
    /\ UNCHANGED <<runner, activeFlights, completeOrderCount, config, nextId, rejectedIds>>

NextPQ == PQEnqueue \/ PQDequeue \/ PQDequeueById

SpecPQ == InitPQ /\ [][NextPQ]_vars

(***************************************************************************)
(* Properties of the queue.                                                *)
(***************************************************************************)
Rank(o) == IF o.priority = "Emergency" THEN 0 ELSE 1

\* a may come out before b: higher class, or same class and not later
MayPrecede(a, b) ==
    \/ Rank(a) < Rank(b)
    \/ Rank(a) = Rank(b) /\ a.time <= b.time

IdsOf(h) == {h[i].order.id : i \in 1..Len(h)}

\* the heap invariant: no element sorts strictly before its parent
HeapOK(h) ==
    \A i \in 1..(Len(h) - 1) : MayPrecede(h[((i - 1) \div 2) + 1].order, h[i + 1].order)

\* the orders returned by calling dequeue() on h until it is empty
RECURSIVE Drain(_)
Drain(h) ==
    IF Len(h) = 0 THEN <<>>
    ELSE LET r == dequeue(h) IN <<r.result>> \o Drain(r.heap)

\* C8: from every queue the calls can build, calling dequeue() until the
\* queue is empty returns each queued order once, every Emergency order
\* before any Resupply order and, within a class, in non-decreasing arrival
\* time; dequeue() on the empty queue returns null and leaves it empty.
C8_DequeueOrder ==
    LET d == Drain(heap)
    IN  /\ Len(d) = Len(heap)
        /\ {d[i].id : i \in 1..Len(d)} = IdsOf(heap)
        /\ \A i, j \in 1..Len(d) : i < j => MayPrecede(d[i], d[j])
        /\ heap = <<>> => dequeue(heap) = [heap |-> <<>>, result |-> Null]

\* C8 witness: in the middle of a drain (the last call was a dequeue that
\* returned an order) of a queue that holds both classes and, within a
\* class, a later arrival enqueued before an earlier one.
C8_Witness ==
    /\ last.op = "dequeue"
    /\ last.found
    /\ \E i, j \in 1..Len(heap) :
         heap[i].order.priority = "Emergency" /\ heap[j].order.priority = "Resupply"
    /\ \E i, j \in 1..Len(heap) :
         /\ heap[i].order.priority = heap[j].order.priority
         /\ heap[i].order.time < heap[j].order.time
         /\ heap[i].order.id > heap[j].order.id

\* C9: dequeueById(id) on a queue holding id returns the order with that
\* id, removes exactly it, keeps every other order, shrinks size() by one
\* and leaves a valid heap.
C9_DequeueByIdRemoves ==
    [][(last'.op = "dequeueById" /\ last'.id \in IdsOf(heap)) =>
         /\ last'.found
         /\ dequeueById(heap, last'.id).result.id = last'.id
         /\ IdsOf(heap') = IdsOf(heap) \ {last'.id}
         /\ size(heap') = size(heap) - 1
         /\ \A i \in 1..Len(heap) :
              heap[i].order.id # last'.id => \E j \in 1..Len(heap') : heap'[j] = heap[i]
         /\ HeapOK(heap')]_vars

\* C9 witness: a removal from the interior of the heap after which the
\* replacement element (the former last element) stands above the slot it
\* was put in: restoring the heap took the upward sift.
C9_Witness ==
    /\ last.op = "dequeueById"
    /\ last.found
    /\ last.movedUp

\* C10: dequeueById(id) with an id the queue does not hold returns null and
\* leaves the heap array (contents, order, size) exactly as it was.
C10_DequeueByIdMissing ==
    [][(last'.op = "dequeueById" /\ last'.id \notin IdsOf(heap)) =>
         /\ ~last'.found
         /\ dequeueById(heap, last'.id).result = Null
         /\ heap' = heap]_vars

\* C10 witness: a not-found dequeueById on a queue that holds orders.
C10_Witness ==
    /\ last.op = "dequeueById"
    /\ ~last.found
    /\ Len(heap) >= 2

\* C11, as claimed: toArray() lists the pending orders in service order,
\* every Emergency order before every Resupply order and, within a class, in
\* non-decreasing arrival time.
C11_ToArrayOrdered ==
    LET a == toArray(heap)
    IN  \A i, j \in 1..Len(a) : i < j => MayPrecede(a[i], a[j])

\* Every reachable heap is a valid heap.
HeapInvariant == HeapOK(heap)

(***************************************************************************)
(* Properties of the scheduler.                                            *)
(***************************************************************************)
ResupplyOnly(flight) ==
    \A i \in 1..Len(flight.orders) : flight.orders[i].priority = "Resupply"

\* the round trip Nest -> hospital -> Nest is within the range; stated on
\* the squares, 4 (n^2 + e^2) <= range^2, with no square root
Reachable(hospital) ==
    4 * (hospital.northM * hospital.northM + hospital.eastM * hospital.eastM)
        <= zipMaxCumulativeRangeM * zipMaxCumulativeRangeM

\* C1: the number of active flights never exceeds numZips, so the number
\* of available vehicles is never negative.
C1_ActiveWithinFleet ==
    /\ Len(activeFlights) <= numZips
    /\ numZips - Len(activeFlights) >= 0

\* C1 witness: launchFlights stopped launching because the whole fleet is
\* in the air while orders are still queued.
C1_Witness ==
    /\ last.op = "launchFlights"
    /\ last.flights # <<>>
    /\ Len(activeFlights) = numZips
    /\ heap # <<>>

\* C2: launchFlights launches no Resupply-only flight at a moment when the
\* available vehicles, counted before the flight takes one, are fewer than
\* the reserve; the flight it withholds for that reason is made of Resupply
\* orders that are all still queued.
C2_NoResupplyBelowReserve ==
    last.op = "launchFlights" =>
        /\ \A k \in 1..Len(last.flights) :
             ResupplyOnly(last.flights[k]) => last.avail[k] >= RESERVED_EMERGENCY_ZIPS
        /\ last.exit = "resupplySkipped" =>
             /\ last.withheld # <<>>
             /\ \A i \in 1..Len(last.withheld) :
                  /\ last.withheld[i].priority = "Resupply"
                  /\ last.withheld[i].id \in IdsOf(heap)

\* C2 witness: one call launched a Resupply-only flight and then withheld
\* the next one because fewer vehicles than the reserve were left.
C2_Witness ==
    /\ last.op = "launchFlights"
    /\ last.exit = "resupplySkipped"
    /\ \E k \in 1..Len(last.flights) : ResupplyOnly(last.flights[k])
    /\ numZips - Len(activeFlights) < RESERVED_EMERGENCY_ZIPS

\* C3, as claimed: right after a Resupply-only flight is launched, at least
\* RESERVED_EMERGENCY_ZIPS vehicles are still available.
C3_ReserveHeldBack ==
    last.op = "launchFlights" =>
        \A k \in 1..Len(last.flights) :
            ResupplyOnly(last.flights[k]) =>
                last.avail[k] - 1 >= RESERVED_EMERGENCY_ZIPS

C5_ScenarioC ==
    [][(/\ last'.op = "launchFlights"
        /\ RESERVED_EMERGENCY_ZIPS = 4
        /\ numZips = 5
        /\ activeFlights = <<>>
        /\ Len(heap) = 1
        /\ heap[1].order.priority = "Resupply")
       => (last'.flights = <<>> /\ heap' = heap)]_vars

\* C6: queueOrder(order) enqueues the order (size + 1) exactly when the
\* round trip to its hospital is within zipMaxCumulativeRangeM; otherwise it
\* reports the rejection and changes neither the queue, nor the active
\* flights, nor the completed counter.
C6_QueueOrderAdmission ==
    [][last'.op = "queueOrder" =>
         IF Reachable(last'.order.hospital)
         THEN /\ ~last'.rejected
              /\ size(heap') = size(heap) + 1
              /\ IdsOf(heap') = IdsOf(heap) \cup {last'.order.id}
         ELSE /\ last'.rejected
              /\ heap' = heap
              /\ activeFlights' = activeFlights
              /\ completeOrderCount' = completeOrderCount]_vars

\* C6 witness: an order was rejected while the queue holds an order whose
\* round trip is exactly the range.
C6_Witness ==
    /\ last.op = "queueOrder"
    /\ last.rejected
    /\ ~Reachable(last.order.hospital)
    /\ \E i \in 1..Len(heap) :
         2 * calculateDistance(Nest, heap[i].order.hospital) = zipMaxCumulativeRangeM

\* C7: an order queueOrder rejected (round trip beyond the range) is on no
\* flight of any later launchFlights call: every stop of every returned or
\* active flight is an admitted order within the range.
C7_RejectedNeverFlies ==
    /\ \A k \in 1..Len(last.flights) : \A i \in 1..Len(last.flights[k].orders) :
         /\ last.flights[k].orders[i].id \notin rejectedIds
         /\ Reachable(last.flights[k].orders[i].hospital)
    /\ \A k \in 1..Len(activeFlights) : \A i \in 1..Len(activeFlights[k].flight.orders) :
         /\ activeFlights[k].flight.orders[i].id \notin rejectedIds
         /\ Reachable(activeFlights[k].flight.orders[i].hospital)

\* C7 witness: launchFlights returned a flight with an order queued after an
\* earlier order had been rejected.
C7_Witness ==
    /\ last.op = "launchFlights"
    /\ \E r \in rejectedIds :
         \E k \in 1..Len(last.flights) : \E i \in 1..Len(last.flights[k].orders) :
            last.flights[k].orders[i].id > r

(***************************************************************************)
(* Properties of the flights planned by one launchFlights call.            *)
(***************************************************************************)
\* the straight-line distance between two points, characterised by its
\* square (the distance between any two of the points used is an integer)
Distance(a, b) ==
    CHOOSE d \in 0..(2 * zipMaxCumulativeRangeM) :
        d * d = (b.northM - a.northM) * (b.northM - a.northM)
                + (b.eastM - a.eastM) * (b.eastM - a.eastM)

\* the length of the path through a sequence of points
RECURSIVE PathLength(_)
PathLength(points) ==
    IF Len(points) < 2 THEN 0
    ELSE Distance(points[1], points[2]) + PathLength(Tail(points))

\* Nest -> the stops in visiting order
Outbound(stops) == <<Nest>> \o [i \in 1..Len(stops) |-> stops[i].hospital]

\* Nest -> the stops in visiting order -> Nest
RoundTrip(stops) == PathLength(Outbound(stops) \o <<Nest>>)

\* the round trip if order o were the next stop after these stops
RoundTripWith(stops, o) == PathLength(Outbound(stops) \o <<o.hospital, Nest>>)

StopsOf(stops) == {stops[i] : i \in 1..Len(stops)}

\* the stop lists planFlight produced during the call recorded in l, in
\* planning order: those of the launched flights, then the withheld one
Planned(l) ==
    [k \in 1..Len(l.flights) |-> l.flights[k].orders]
        \o (IF l.withheld # <<>> THEN <<l.withheld>> ELSE <<>>)

\* the orders pending when the k-th plan was made: those queued at the call
\* and not on an earlier flight of the call
PendingAt(h, plans, k) ==
    {o \in StopsOf(toArray(h)) : \A j \in 1..(k - 1) : o \notin StopsOf(plans[j])}

\* C12: in every flight planned during launchFlights, no Resupply stop comes
\* before an Emergency stop, and a flight has a Resupply stop only if every
\* Emergency order pending when it was planned is on the flight or could not
\* be added within the range after some prefix of its Emergency stops.
C12_EmergencyStopsFirst ==
    [][last'.op = "launchFlights" =>
         \A k \in 1..Len(Planned(last')) :
            LET stops == Planned(last')[k]
                emergencies == SelectSeq(stops, LAMBDA o : o.priority = "Emergency")
            IN  /\ \A i, j \in 1..Len(stops) :
                     i < j => Rank(stops[i]) <= Rank(stops[j])
                /\ (\E i \in 1..Len(stops) : stops[i].priority = "Resupply") =>
                     \A o \in PendingAt(heap, Planned(last'), k) :
                        o.priority = "Emergency" =>
                            \/ o \in StopsOf(stops)
                            \/ \E m \in 0..Len(emergencies) :
                                  RoundTripWith(SubSeq(emergencies, 1, m), o)
                                      > zipMaxCumulativeRangeM]_vars

\* C12 witness: launchFlights launched a flight with an Emergency stop
\* followed by a Resupply stop while an Emergency order, out of range for
\* that flight, stays queued.
C12_Witness ==
    /\ last.op = "launchFlights"
    /\ \E k \in 1..Len(last.flights) :
         /\ Len(last.flights[k].orders) = 2
         /\ last.flights[k].orders[1].priority = "Emergency"
         /\ last.flights[k].orders[2].priority = "Resupply"
    /\ \E i \in 1..Len(heap) : heap[i].order.priority = "Emergency"

\* C13: every flight launched by launchFlights, returned by the call or
\* still in the active list, carries at least one order and at most
\* maxPackagesPerZip orders.
C13_FlightSize ==
    /\ \A k \in 1..Len(last.flights) :
         /\ Len(last.flights[k].orders) >= 1
         /\ Len(last.flights[k].orders) <= maxPackagesPerZip
    /\ \A k \in 1..Len(activeFlights) :
         /\ Len(activeFlights[k].flight.orders) >= 1
         /\ Len(activeFlights[k].flight.orders) <= maxPackagesPerZip

\* C13 witness: a call launched a full flight and then a second flight with
\* the order that did not fit on the first although it was within its range.
C13_Witness ==
    /\ last.op = "launchFlights"
    /\ Len(last.flights) >= 2
    /\ Len(last.flights[1].orders) = maxPackagesPerZip
    /\ RoundTripWith(last.flights[1].orders, last.flights[2].orders[1])
          <= zipMaxCumulativeRangeM

\* C14: every flight launched by launchFlights records as totalDistance the
\* length of Nest -> stops in visiting order -> Nest, which is at most
\* zipMaxCumulativeRangeM, and so is the round trip after each of its stops:
\* no stop was added that pushed the round trip over the range.
C14_FlightWithinRange ==
    /\ \A k \in 1..Len(last.flights) :
         LET f == last.flights[k]
         IN  /\ f.totalDistance = RoundTrip(f.orders)
             /\ f.totalDistance <= zipMaxCumulativeRangeM
             /\ \A i \in 1..Len(f.orders) :
                  RoundTrip(SubSeq(f.orders, 1, i)) <= zipMaxCumulativeRangeM
    /\ \A k \in 1..Len(activeFlights) :
         LET f == activeFlights[k].flight
         IN  /\ f.totalDistance = RoundTrip(f.orders)
             /\ f.totalDistance <= zipMaxCumulativeRangeM

\* C14 witness: a flight with room left was launched without a queued order
\* that is reachable on its own but not as the next stop of this flight.
C14_Witness ==
    /\ last.op = "launchFlights"
    /\ \E k \in 1..Len(last.flights) :
         /\ Len(last.flights[k].orders) < maxPackagesPerZip
         /\ \E i \in 1..Len(heap) :
              /\ Reachable(heap[i].order.hospital)
              /\ RoundTripWith(last.flights[k].orders, heap[i].order)
                    > zipMaxCumulativeRangeM

\* C15: in every flight planned during launchFlights, each stop is at
\* minimum distance from the location before it among the orders of its
\* class that were pending, not yet chosen and not out of range for the
\* flight so far.  In particular with one vehicle, capacity 1 and two
\* Emergency orders queued at different distances, launchFlights launches
\* exactly one flight, carrying the nearer order, and the farther one stays
\* queued.
C15_NearestNeighbour ==
    [][last'.op = "launchFlights" =>
         /\ \A k \in 1..Len(Planned(last')) :
              LET stops == Planned(last')[k]
              IN  \A i \in 1..Len(stops) :
                    LET before == SubSeq(stops, 1, i - 1)
                        from == Outbound(before)[i]
                    IN  \A o \in PendingAt(heap, Planned(last'), k) :
                          (o.priority = stops[i].priority /\ o \notin StopsOf(before)) =>
                              \/ Distance(from, stops[i].hospital)
                                    <= Distance(from, o.hospital)
                              \/ \E m \in 0..(i - 1) :
                                    RoundTripWith(SubSeq(stops, 1, m), o)
                                        > zipMaxCumulativeRangeM
         /\ (/\ numZips = 1
             /\ maxPackagesPerZip = 1
             /\ activeFlights = <<>>
             /\ Len(heap) = 2
             /\ heap[1].order.priority = "Emergency"
             /\ heap[2].order.priority = "Emergency"
             /\ Distance(Nest, heap[1].order.hospital)
                   # Distance(Nest, heap[2].order.hospital))
            => LET a == heap[1].order
                   b == heap[2].order
                   nearer == IF Distance(Nest, a.hospital) < Distance(Nest, b.hospital)
                             THEN a ELSE b
                   farther == IF nearer = a THEN b ELSE a
               IN  /\ Len(last'.flights) = 1
                   /\ last'.flights[1].orders = <<nearer>>
                   /\ toArray(heap') = <<farther>>]_vars

\* C15 witness: one vehicle, capacity 1; the call launched one flight with
\* an Emergency order and left queued an Emergency order that is farther
\* from the Nest and was queued earlier.
C15_Witness ==
    /\ last.op = "launchFlights"
    /\ numZips = 1
    /\ maxPackagesPerZip = 1
    /\ Len(last.flights) = 1
    /\ Len(heap) = 1
    /\ last.flights[1].orders[1].priority = "Emergency"
    /\ heap[1].order.priority = "Emergency"
    /\ heap[1].order.id < last.flights[1].orders[1].id
    /\ Distance(Nest, heap[1].order.hospital)
          > Distance(Nest, last.flights[1].orders[1].hospital)

(***************************************************************************)
(* Properties of the release step.  Times are compared after multiplying   *)
(* by zipSpeedMps, as returnTime is kept.                                  *)
(***************************************************************************)
EntriesOf(active) == {active[k] : k \in 1..Len(active)}

ReleaseCalls == {"releaseReturningZips", "launchFlights"}

\* C16: an entry's returnTime is launchTime + totalDistance / zipSpeedMps;
\* an entry leaves the active list only in a release step (on its own or at
\* the start of launchFlights) whose currentTime >= its returnTime; a
\* release with currentTime < returnTime keeps it and one with currentTime
\* >= returnTime frees it; no call removes an entry otherwise.
C16_ReleaseOnlyWhenReturned ==
    [][\A e \in EntriesOf(activeFlights) :
         /\ e.returnTime = e.flight.launchTime * zipSpeedMps + e.flight.totalDistance
         /\ e \notin EntriesOf(activeFlights') =>
              /\ last'.op \in ReleaseCalls
              /\ last'.time * zipSpeedMps >= e.returnTime
         /\ (last'.op \in ReleaseCalls /\ last'.time * zipSpeedMps < e.returnTime) =>
              e \in EntriesOf(activeFlights')
         /\ (last'.op \in ReleaseCalls /\ last'.time * zipSpeedMps >= e.returnTime) =>
              e \notin EntriesOf(activeFlights')]_vars

\* C16 witness: a release freed a flight, launched earlier, at exactly its
\* return time and kept a flight that returns later.
C16_Witness ==
    /\ last.op = "releaseReturningZips"
    /\ last.time > 0
    /\ \E k \in 1..Len(last.released) :
         /\ last.released[k].returnTime = last.time * zipSpeedMps
         /\ last.released[k].flight.launchTime < last.time
    /\ \E e \in EntriesOf(activeFlights) : e.returnTime > last.time * zipSpeedMps

\* C17: a releaseReturningZips call with the same currentTime as the
\* releaseReturningZips call just before it changes neither the active list
\* nor completeOrderCount.
C17_ReleaseIdempotent ==
    [][(/\ last.op = "releaseReturningZips"
        /\ last'.op = "releaseReturningZips"
        /\ last'.time = last.time)
       => /\ activeFlights' = activeFlights
          /\ completeOrderCount' = completeOrderCount
          /\ last'.released = <<>>]_vars

\* C17 witness: the release was called a second time with the currentTime
\* of a call that had just released a flight, while another flight is
\* still active.
C17_Witness ==
    /\ last.op = "releaseReturningZips"
    /\ last.again
    /\ last.prior # <<>>
    /\ activeFlights # <<>>

\* the entries of a list that have not returned by time t
StillOut(active, t) == {e \in EntriesOf(active) : e.returnTime > t * zipSpeedMps}

\* C18: every launchFlights(t) call first releases the entries with
\* returnTime <= t, whether or not orders are queued, and counts the
\* available vehicles after that: the first flight of the call is launched
\* with numZips minus the entries still out at t available, so a vehicle
\* that returns exactly at t can carry a flight launched at t.
C18_ReleaseBeforeLaunch ==
    [][last'.op = "launchFlights" =>
         /\ \A e \in EntriesOf(activeFlights) :
              e.returnTime <= last'.time * zipSpeedMps => e \notin EntriesOf(activeFlights')
         /\ StillOut(activeFlights, last'.time) \subseteq EntriesOf(activeFlights')
         /\ last'.flights # <<>> =>
              last'.avail[1] = numZips - Cardinality(StillOut(activeFlights, last'.time))
         /\ (heap # <<>> /\ last'.flights = <<>>) =>
              \/ numZips - Cardinality(StillOut(activeFlights, last'.time)) < 1
              \/ last'.exit \in {"noOrdersFit", "resupplySkipped"}]_vars

\* C18 witness: the whole fleet was in the air, a vehicle returned exactly
\* at t, and launchFlights(t) released it and launched a flight at t.
C18_Witness ==
    /\ last.op = "launchFlights"
    /\ Len(last.released) + Len(activeFlights) - Len(last.flights) = numZips
    /\ \E k \in 1..Len(last.released) :
         last.released[k].returnTime = last.time * zipSpeedMps
    /\ last.flights # <<>>
    /\ last.flights[1].launchTime = last.time

\* C19: launchFlights(t) returns exactly the flights it appended to the
\* active list during the call, in launch order (the list afterwards is the
\* entries kept by the release followed by one entry per returned flight);
\* each returned flight has launchTime = t; its orders were queued at the
\* call and none of them is queued when the call returns, while every other
\* order stays queued.
C19_ReturnedFlights ==
    [][last'.op = "launchFlights" =>
         LET flights == last'.flights
             kept == Len(activeFlights') - Len(flights)
             flown == UNION {{flights[k].orders[i].id : i \in 1..Len(flights[k].orders)}
                                : k \in 1..Len(flights)}
         IN  /\ kept >= 0
             /\ SubSeq(activeFlights', 1, kept)
                  = SelectSeq(activeFlights,
                              LAMBDA e : e.returnTime > last'.time * zipSpeedMps)
             /\ \A k \in 1..Len(flights) :
                  /\ activeFlights'[kept + k].flight = flights[k]
                  /\ flights[k].launchTime = last'.time
                  /\ \A j \in 1..Len(flights) :
                       j # k => StopsOf(flights[j].orders) \cap StopsOf(flights[k].orders) = {}
             /\ flown \subseteq IdsOf(heap)
             /\ IdsOf(heap') = IdsOf(heap) \ flown
             /\ Len(heap') = Len(heap) - Cardinality(flown)]_vars

\* C19 witness: a call at a time after 0 returned two flights while an
\* earlier flight is still active.
C19_Witness ==
    /\ last.op = "launchFlights"
    /\ last.time > 0
    /\ Len(last.flights) >= 2
    /\ Len(activeFlights) > Len(last.flights)

\* the number of stops of the flights of a set of entries
RECURSIVE StopCount(_)
StopCount(entries) ==
    IF entries = {} THEN 0
    ELSE LET e == CHOOSE x \in entries : TRUE
         IN  Len(e.flight.orders) + StopCount(entries \ {e})

\* C20: completeOrderCount starts at 0; every call adds to it exactly the
\* stops of the entries it removes from the active list, which only the
\* release step (on its own or inside launchFlights) does; so in every
\* state it is the number of orders that were launched and are no longer
\* on an active flight: the admitted orders less the queued ones and the
\* ones in the air.
C20_CompleteOrderCount ==
    /\ completeOrderCount = 0
    /\ [](completeOrderCount
            = (nextId - 1) - Cardinality(rejectedIds) - Len(heap)
              - StopCount(EntriesOf(activeFlights)))
    /\ [][/\ completeOrderCount' =
                completeOrderCount
                + StopCount(EntriesOf(activeFlights) \ EntriesOf(activeFlights'))
          /\ completeOrderCount' # completeOrderCount => last'.op \in ReleaseCalls
          /\ last'.op \in ReleaseCalls =>
               completeOrderCount' - completeOrderCount
                   = StopCount(EntriesOf(last'.released))]_vars

\* C20 witness: a release freed a flight of two stops and the counter shows
\* three completed orders, one of them counted by an earlier release or for
\* another flight of this release.
C20_Witness ==
    /\ last.op = "releaseReturningZips"
    /\ \E k \in 1..Len(last.released) : Len(last.released[k].flight.orders) = 2
    /\ completeOrderCount = 3

(***************************************************************************)
(* Properties of the removal of planned orders from the queue.             *)
(***************************************************************************)
\* C21, as claimed: when a dequeueById for a planned stop reports not-found,
\* launchFlights aborts: it creates and records no flight for that plan, so
\* no order of a returned or active flight is still queued.
C21_AbortOnMissingOrder ==
    [][(last'.op = "launchFlights" /\ last'.failed > 0) =>
         /\ \A k \in 1..Len(last'.flights) :
              StopsOf(last'.flights[k].orders) \cap StopsOf(toArray(heap')) = {}
         /\ \A k \in 1..Len(activeFlights') :
              StopsOf(activeFlights'[k].flight.orders) \cap StopsOf(toArray(heap')) = {}]_vars

(***************************************************************************)
(* Liveness of the release.                                                *)
(***************************************************************************)
\* C22: there is no cancellation: under a caller whose release calls keep
\* coming with growing times, whenever flights are active they are all
\* eventually released, and then every admitted order that is not queued
\* is counted as completed.
C22_EveryFlightCompletes ==
    (activeFlights # <<>>) ~>
        (/\ activeFlights = <<>>
         /\ completeOrderCount
              = (nextId - 1) - Cardinality(rejectedIds) - Len(heap))

\* C22 witness: a flight launched at the last time of the model, which no
\* release within that time frees, was released by the later call and its
\* stops are counted.
C22_Witness ==
    /\ last.op = "releaseReturningZips"
    /\ last.time = Horizon
    /\ \E k \in 1..Len(last.released) :
         /\ last.released[k].flight.launchTime = MaxTime
         /\ last.released[k].returnTime = Horizon * zipSpeedMps
    /\ completeOrderCount > 0
    /\ activeFlights = <<>>

(***************************************************************************)
(* Ties.                                                                   *)
(***************************************************************************)
\* C23, as claimed: in every flight planned during launchFlights, a stop
\* arrived no later than any pending order of its class that was not yet
\* chosen, is exactly as far from the location before the stop and would
\* have been within range as the next stop.
C23_TieEarliestArrival ==
    [][last'.op = "launchFlights" =>
         \A k \in 1..Len(Planned(last')) :
            LET stops == Planned(last')[k]
            IN  \A i \in 1..Len(stops) :
                  LET before == SubSeq(stops, 1, i - 1)
                      from == Outbound(before)[i]
                  IN  \A o \in PendingAt(heap, Planned(last'), k) :
                        (/\ o.priority = stops[i].priority
                         /\ o \notin StopsOf(before)
                         /\ Distance(from, o.hospital)
                               = Distance(from, stops[i].hospital)
                         /\ RoundTripWith(before, o) <= zipMaxCumulativeRangeM)
                        => stops[i].time <= o.time]_vars

\* C24, as claimed: the queue is stable by insertion: from every queue that
\* enqueue, dequeue and dequeueById can build, two orders of the same class
\* and the same arrival time are dequeued in the order they were enqueued
\* (ids number the orders in enqueue order).
C24_StableByInsertion ==
    LET d == Drain(heap)
    IN  \A i, j \in 1..Len(d) :
          (i < j /\ d[i].priority = d[j].priority /\ d[i].time = d[j].time)
              => d[i].id < d[j].id

(***************************************************************************)
(* Discarded candidates.                                                   *)
(***************************************************************************)
\* C25: a range-infeasible candidate is dropped for the flight being
\* planned and nothing else is: a planned flight that is not full leaves
\* behind no pending order that would still be within range as its next
\* stop, and every pending order that is on no flight of the call is still
\* queued when the call returns.
C25_DiscardOnlyCandidate ==
    [][last'.op = "launchFlights" =>
         \A k \in 1..Len(Planned(last')) :
            LET stops == Planned(last')[k]
                left == PendingAt(heap, Planned(last'), k) \ StopsOf(stops)
            IN  /\ Len(stops) < maxPackagesPerZip =>
                     \A o \in left :
                        RoundTripWith(stops, o) > zipMaxCumulativeRangeM
                /\ \A o \in left :
                     \/ o \in StopsOf(toArray(heap'))
                     \/ \E j \in (k + 1)..Len(last'.flights) :
                          o \in StopsOf(last'.flights[j].orders)]_vars

\* C25 witness: the flight's second stop is a Resupply order that was added
\* after an Emergency order, out of range as the second stop but not on its
\* own, had been discarded; that Emergency order is still queued.
C25_Witness ==
    /\ last.op = "launchFlights"
    /\ \E k \in 1..Len(last.flights) : \E i \in 1..Len(heap) :
         LET stops == last.flights[k].orders
             o == heap[i].order
         IN  /\ Len(stops) = 2
             /\ stops[2].priority = "Resupply"
             /\ o.priority = "Emergency"
             /\ o.id < stops[2].id
             /\ Reachable(o.hospital)
             /\ RoundTripWith(<<stops[1]>>, o) > zipMaxCumulativeRangeM

(***************************************************************************)
(* The distance of a flight.                                               *)
(***************************************************************************)
\* C26: the totalDistance of every planned and launched flight with stops
\* s1..sn is distance(Nest, s1) + the distances between consecutive stops
\* + distance(sn, Nest), and its return time is computed from that.
C26_TotalDistance ==
    /\ \A k \in 1..Len(last.flights) :
         LET f == last.flights[k]
             n == Len(f.orders)
         IN  /\ n >= 1
             /\ f.totalDistance
                  = Distance(Nest, f.orders[1].hospital)
                    + PathLength([i \in 1..n |-> f.orders[i].hospital])
                    + Distance(f.orders[n].hospital, Nest)
    /\ \A k \in 1..Len(activeFlights) :
         LET e == activeFlights[k]
             n == Len(e.flight.orders)
         IN  /\ n >= 1
             /\ e.returnTime - e.flight.launchTime * zipSpeedMps
                  = Distance(Nest, e.flight.orders[1].hospital)
                    + PathLength([i \in 1..n |-> e.flight.orders[i].hospital])
                    + Distance(e.flight.orders[n].hospital, Nest)

\* C26 witness: a launched flight visits two different hospitals, so that
\* its three legs are all longer than 0.
C26_Witness ==
    /\ last.op = "launchFlights"
    /\ \E k \in 1..Len(last.flights) :
         /\ Len(last.flights[k].orders) = 2
         /\ last.flights[k].orders[1].hospital # last.flights[k].orders[2].hospital
         /\ last.flights[k].totalDistance = zipMaxCumulativeRangeM

(***************************************************************************)
(* Planning leaves the queue alone.                                        *)
(***************************************************************************)
\* C27: planning changes nothing: a launchFlights call that launches no
\* flight (none planned, or the planned one withheld) leaves the queue
\* exactly as it was and the active list as the release step left it; and
\* whenever a planned flight is withheld, all its orders are still queued.
C27_PlanningLeavesQueue ==
    [][last'.op = "launchFlights" =>
         /\ last'.flights = <<>> =>
              /\ heap' = heap
              /\ activeFlights'
                   = SelectSeq(activeFlights,
                               LAMBDA e : e.returnTime > last'.time * zipSpeedMps)
         /\ StopsOf(last'.withheld) \subseteq StopsOf(toArray(heap'))]_vars

\* C27 witness: after releasing a returned flight, the call planned a flight
\* with one of two queued Resupply orders (capacity 2: the other one was
\* discarded as out of range for it) and withheld it.
C27_Witness ==
    /\ last.op = "launchFlights"
    /\ last.exit = "resupplySkipped"
    /\ last.flights = <<>>
    /\ last.released # <<>>
    /\ maxPackagesPerZip = 2
    /\ Len(last.withheld) = 1
    /\ Len(heap) = 2

(***************************************************************************)
(* Every admitted order is in one place.                                   *)
(***************************************************************************)
\* the ids queueOrder has admitted when the next id is next
AdmittedOf(next, rejected) == (1..(next - 1)) \ rejected

Admitted == AdmittedOf(nextId, rejectedIds)

\* the stops of the active flights, as (entry, stop) positions
StopsOut(active) ==
    {p \in (1..Len(active)) \X (1..MaxPackages) :
         p[2] <= Len(active[p[1]].flight.orders)}

IdsOut(active) == {active[p[1]].flight.orders[p[2]].id : p \in StopsOut(active)}

\* each admitted order is queued once, or a stop of one active flight, or
\* counted as complete; nothing else is queued or flying
OnePlace(h, active, complete, admitted) ==
    /\ Cardinality(IdsOf(h)) = Len(h)
    /\ Cardinality(IdsOut(active)) = Cardinality(StopsOut(active))
    /\ IdsOf(h) \cap IdsOut(active) = {}
    /\ IdsOf(h) \cup IdsOut(active) \subseteq admitted
    /\ Cardinality(admitted)
         = Len(h) + Cardinality(StopsOut(active)) + complete

\* C28: with unique order ids, every admitted order is in exactly one of
\* the queue, one active flight, or the released (counted) orders, so
\* admitted = queued + stops on active flights + completeOrderCount and no
\* order is on two flights; an admitted order that is not queued is never
\* queued again, and one that is neither queued nor flying never flies again.
C28_OnePlace ==
    [][/\ OnePlace(heap, activeFlights, completeOrderCount, Admitted)
       /\ OnePlace(heap', activeFlights', completeOrderCount',
                   AdmittedOf(nextId', rejectedIds'))
       /\ \A id \in Admitted :
            /\ id \notin IdsOf(heap) => id \notin IdsOf(heap')
            /\ id \notin IdsOf(heap) \cup IdsOut(activeFlights)
                 => id \notin IdsOut(activeFlights')]_vars

\* C28 witness: three admitted orders, one in each place: one queued, one
\* on an active flight, one on a flight that was released.
C28_Witness ==
    /\ Cardinality(Admitted) = 3
    /\ Len(heap) = 1
    /\ Cardinality(StopsOut(activeFlights)) = 1
    /\ completeOrderCount = 1

(***************************************************************************)
(* Emergency orders never wait for an idle vehicle.                        *)
(***************************************************************************)
\* C29: when launchFlights returns, no vehicle is available or no
\* Emergency order is queued; and the call withholds a flight for the
\* reserve only if no Emergency order was pending when it was planned.
C29_EmergencyNeverWaits ==
    [][last'.op = "launchFlights" =>
         /\ \/ availableZipsAt(activeFlights') = 0
            \/ countByPriority(heap', "Emergency") = 0
         /\ last'.exit = "resupplySkipped" =>
              \A o \in PendingAt(heap, Planned(last'), Len(Planned(last'))) :
                  o.priority # "Emergency"]_vars

\* C29 witness: a call launched two flights for Emergency orders with fewer
\* vehicles available than the reserve, used the last vehicle, and returned
\* with an Emergency order still queued.
C29_Witness ==
    /\ last.op = "launchFlights"
    /\ Len(last.flights) = 2
    /\ last.avail[1] < RESERVED_EMERGENCY_ZIPS
    /\ availableZipsAt(activeFlights) = 0
    /\ countByPriority(heap, "Emergency") = 1

(***************************************************************************)
(* A flight is Resupply-only exactly when no Emergency order is queued.    *)
(***************************************************************************)
\* the Emergency orders among a set of orders
EmergencyIn(orders) == {o \in orders : o.priority = "Emergency"}

\* C30: for every flight planned during launchFlights: if an Emergency
\* order is queued when it is planned, the plan has stops and its first
\* stop is an Emergency order; its stops are all Resupply exactly when no
\* Emergency order is queued; and the reservation test agrees with that: a
\* flight launched below the reserve is not Resupply-only and a flight
\* withheld for the reserve is.
C30_ResupplyOnlyIffNoEmergency ==
    [][last'.op = "launchFlights" =>
         LET plans == Planned(last')
         IN  /\ \A k \in 1..Len(plans) :
                  LET pending == EmergencyIn(PendingAt(heap, plans, k))
                      allResupply ==
                          \A i \in 1..Len(plans[k]) : plans[k][i].priority = "Resupply"
                  IN  /\ pending # {} => plans[k][1].priority = "Emergency"
                      /\ allResupply <=> pending = {}
                      /\ k <= Len(last'.flights)
                           /\ last'.avail[k] < RESERVED_EMERGENCY_ZIPS
                           => ~allResupply
                      /\ k > Len(last'.flights) /\ last'.exit = "resupplySkipped"
                           => allResupply
             /\ last'.exit = "noOrdersFit" =>
                  EmergencyIn(PendingAt(heap, plans, Len(plans) + 1)) = {}]_vars

\* C30 witness: with Resupply orders queued ahead of it by arrival, a call
\* launched a flight below the reserve whose first stop is the Emergency
\* order and whose second stop is a Resupply order, then planned a
\* Resupply-only flight from what was left and withheld it.
C30_Witness ==
    /\ last.op = "launchFlights"
    /\ last.exit = "resupplySkipped"
    /\ Len(last.flights) = 1
    /\ last.avail[1] < RESERVED_EMERGENCY_ZIPS
    /\ Len(last.flights[1].orders) = 2
    /\ last.flights[1].orders[1].priority = "Emergency"
    /\ last.flights[1].orders[2].priority = "Resupply"
    /\ last.flights[1].orders[1].id > last.flights[1].orders[2].id

(***************************************************************************)
(* A non-empty queue always yields a flight.                               *)
(***************************************************************************)
\* C31: every queued order passed queueOrder's round-trip test, so in every
\* state with a non-empty queue planFlight returns at least one stop, and
\* no launchFlights call leaves its loop through the "no orders fit" break.
C31_PlanNeverEmpty ==
    [][/\ heap' # <<>> => Len(planFlight(heap').flightOrders) >= 1
       /\ last'.op = "launchFlights" => last'.exit # "noOrdersFit"]_vars

\* C31 witness: an order was turned away by queueOrder, and a call planned
\* and launched a flight to a hospital whose round trip is exactly the
\* range.
C31_Witness ==
    /\ last.op = "launchFlights"
    /\ rejectedIds # {}
    /\ \E k \in 1..Len(last.flights) :
         /\ Len(last.flights[k].orders) = 1
         /\ RoundTrip(last.flights[k].orders) = zipMaxCumulativeRangeM

(***************************************************************************)
(* Every planned stop is found in the queue.                               *)
(***************************************************************************)
\* the ids of the stops of the flights in a list
LaunchedIds(flights) ==
    UNION {{flights[k].orders[i].id : i \in 1..Len(flights[k].orders)} :
               k \in 1..Len(flights)}

\* C32: with unique order ids, every dequeueById that launchFlights issues
\* for a planned stop finds its order and removes it: no call logs "Failed
\* to dequeue order", and after the call the queue is the queue before it
\* less exactly the stops of the flights the call launched.
C32_DequeueAlwaysFinds ==
    [][last'.op = "launchFlights" =>
         /\ last'.failed = 0
         /\ IdsOf(heap') = IdsOf(heap) \ LaunchedIds(last'.flights)
         /\ LaunchedIds(last'.flights) \subseteq IdsOf(heap)]_vars

\* C32 witness: one call launched two flights of two stops and of one stop
\* from a queue of three orders, which is empty afterwards.
C32_Witness ==
    /\ last.op = "launchFlights"
    /\ Len(last.flights) = 2
    /\ Len(last.flights[1].orders) = 2
    /\ Len(last.flights[2].orders) = 1
    /\ heap = <<>>
    /\ last.failed = 0

C34_RejectsEarlierTime ==
    [][(/\ last'.op = "launchFlights"
        /\ \E k \in 1..Len(activeFlights) :
               activeFlights[k].flight.launchTime > last'.time)
         => /\ last'.flights = <<>>
            /\ heap' = heap
            /\ activeFlights' = activeFlights
            /\ completeOrderCount' = completeOrderCount]_vars

(***************************************************************************)
(* Termination of the loops.                                               *)
(***************************************************************************)
\* the passes through the body of the while loop of launchFlights during
\* the call recorded in l: one per flight launched, and the one that left
\* the loop through a break
LoopIterations(l) ==
    Len(l.flights)
        + (IF l.exit \in {"noOrdersFit", "emergencySkipped", "resupplySkipped"}
           THEN 1 ELSE 0)

\* C35: every launchFlights call ends with its loop having run at most as
\* many times as vehicles were available after the release step, and the
\* loop of planFlight on any queue the scheduler reaches runs at most as
\* many times as orders are queued.
C35_LoopsBounded ==
    [][/\ last'.op = "launchFlights" =>
            LoopIterations(last')
                <= numZips - Len(SelectSeq(activeFlights,
                       LAMBDA e : e.returnTime > last'.time * zipSpeedMps))
       /\ planFlight(heap).iterations <= Len(heap)
       /\ planFlight(heap').iterations <= Len(heap')]_vars

\* C35 witness: a call used every available vehicle, one loop pass each,
\* with an order left queued; planning on that queue takes one pass per
\* queued order.
C35_Witness ==
    /\ last.op = "launchFlights"
    /\ numZips >= 2
    /\ last.released = <<>>
    /\ LoopIterations(last) = numZips
    /\ Len(activeFlights) = numZips
    /\ heap # <<>>
    /\ planFlight(heap).iterations = Len(heap)

(***************************************************************************)
(* The calls Runner.run makes.                                             *)
(***************************************************************************)
\* C36: in every pass of run()'s loop, at tick t: the orders passed to
\* queueOrder are exactly the pending orders with time t, each once, and
\* they leave the pending list; no pending order is left with a time that
\* has passed, so at the end of the day none is pending; launchFlights is
\* called exactly when t is divisible by 60, with currentTime t, after the
\* orders of tick t were queued (an Emergency order that arrives at such a
\* tick is on a flight launched at that tick, vehicles being free); and t
\* grows by one per pass, so the launchFlights times strictly increase.
C36_RunnerCalls ==
    [][LET t == secondsSinceMidnight
       IN  /\ last'.op = "run" /\ last'.time = t
           /\ secondsSinceMidnight' = t + 1
           /\ last'.queued = SelectSeq(runnerOrders, LAMBDA o : o.time = t)
           /\ runnerOrders' = SelectSeq(runnerOrders, LAMBDA o : o.time # t)
           /\ \A i \in 1..Len(runnerOrders') : runnerOrders'[i].time > t
           /\ secondsSinceMidnight' = secondsPerDay => runnerOrders' = <<>>
           /\ last'.launched <=> t % 60 = 0
           /\ ~last'.launched =>
                /\ last'.flights = <<>>
                /\ activeFlights' = activeFlights
           /\ \A k \in 1..Len(last'.flights) : last'.flights[k].launchTime = t
           /\ last'.launched =>
                \A i \in 1..Len(last'.queued) :
                    last'.queued[i].priority = "Emergency"
                        => last'.queued[i].id \in LaunchedIds(last'.flights)]_vars

\* C36 witness: two orders with the same arrival time, a tick divisible by
\* 60 that is not the first of the run, were both queued at that tick and
\* the launchFlights call of the tick launched a flight.
C36_Witness ==
    /\ last.op = "run"
    /\ last.time = 60
    /\ Len(last.queued) = 2
    /\ last.launched
    /\ last.flights # <<>>
    /\ runnerOrders = <<>>

(***************************************************************************)
(* The battery estimate of a flight.                                       *)
(***************************************************************************)
\* C37, as claimed: the battery estimate of every launched flight is
\* 100 - (totalDistance / zipMaxCumulativeRangeM) * 100, with the range the
\* scheduler was constructed with, and lies between 0 and 100.  (Both sides
\* of the equation are multiplied by the two ranges.)
C37_BatteryEstimate ==
    [][last'.op = "launchFlights" =>
         \A k \in 1..Len(last'.flights) :
             LET flight == last'.flights[k]
             IN  /\ flight.estimatedReturnBatteryPercentage * zipMaxCumulativeRangeM
                      = (100 * zipMaxCumulativeRangeM - flight.totalDistance * 100)
                            * ZIP_MAX_CUMULATIVE_RANGE_M
                 /\ flight.estimatedReturnBatteryPercentage >= 0
                 /\ flight.estimatedReturnBatteryPercentage
                      <= 100 * ZIP_MAX_CUMULATIVE_RANGE_M]_vars

(***************************************************************************)
(* The variant of src/index.ts.                                            *)
(***************************************************************************)
\* C38, as claimed: in the scheduler of src/index.ts no launchFlights call
\* leaves more flights active than there are vehicles, and no call launches
\* more flights than the vehicles available after its release step.
C38_IndexActiveWithinFleet ==
    [][last'.op = "launchFlights" =>
         /\ Len(activeFlights') <= numZips
         /\ Len(last'.flights)
              <= numZips - Len(SelectSeq(activeFlights,
                     LAMBDA e : e.returnTime > last'.time * zipSpeedMps))]_vars

====
